---------------------------- MODULE Spec2Model ----------------------------
(***************************************************************************)
(* Route optimization of routecrmpro: nearest neighbour + 2-opt as it is   *)
(* implemented in                                                          *)
(*   optimize-route.js   (prefix OR_)  closed route [0, stops.., 0]        *)
(*   route-optimizer.js  (prefix RO_)  open route   [0, stops..]           *)
(*   route utilities     (prefix RU_)  array of stops, depot apart         *)
(*   routes-v2.js        (prefix V2_)  nearest neighbour only              *)
(* and clusterStops of the route utilities.                                *)
(*                                                                         *)
(* Distances are integers in thousandths of a mile, so the thresholds      *)
(* 0.001 and 0.01 of the code are 1 and 10.  JavaScript arrays are         *)
(* sequences read through At (0-based), and loop counters keep their       *)
(* JavaScript values.                                                      *)
(***************************************************************************)
EXTENDS Integers, Sequences, FiniteSets, TLC

\* ------------------------------------------------------------------ bounds
\* Largest number of stop rows in one request.
MaxStops == 4

\* Largest iteration cap passed to a 2-opt function when the cap is varied.
MaxCap == 3

\* The distances (thousandths of a mile) haversineDistance returns for two
\* locations at different places: a near pair and a far pair.  Any assignment of
\* these two values to the pairs satisfies the triangle inequality, and their
\* difference is above both acceptance thresholds.
DistVals == {12, 24}

\* ------------------------------------------------------- program constants
\* twoOpt(route, distanceMatrix, maxIterations = 1000)
OR_maxIterations == 1000
\* twoOptImprove(route, distanceMatrix, maxIterations = 1000)
RO_maxIterations == 1000
\* twoOptImprove(stops, depot, maxIterations = 100)
RU_maxIterations == 100
\* "delta < -0.001" and "newDist < currentDist - 0.001", in thousandths of a mile
OR_epsilon == 1
RO_epsilon == 1
\* "newDistance < bestDistance - 0.01", in thousandths of a mile
RU_epsilon == 10
\* DEFAULT_FUEL_PRICE = 3.50, in cents per gallon
FuelPriceCents == 350
\* truckMpg = 8
TruckMpg == 8

VARIABLES
    entry,        \* which entry point serves the request
    depot,        \* the distribution center row: [lat, lng] as fetched
    rows,         \* the stop rows of the database or caller: stop id -> [lat, lng]
    request,      \* the stop ids in the order the request supplies them
    geo,          \* haversineDistance between the accepted locations, by id (0 = depot)
    pc,           \* position in the handler
    outcome,      \* "pending", "success" or "error"
    errorMsg,     \* the error message, "" when none
    validStops,   \* ids of the stops that passed the coordinate filter, in order
    visited,      \* nearestNeighbor: set of visited location indices
    route,        \* nearestNeighbor: the route under construction
    current,      \* nearestNeighbor: current location index
    nnRoute,      \* the route nearest neighbour returned
    bestRoute,    \* 2-opt: the route held
    i,            \* 2-opt: outer loop counter
    j,            \* 2-opt: inner loop counter
    improved,     \* 2-opt: flag of the current pass
    iterations,   \* 2-opt: passes started
    result,       \* the response body on success
    run,          \* 1 for the first call, 2 for the repeated call
    mode,         \* how the second call's stops are ordered: "same" or "reordered"
    first,        \* the first call's result, kept by the caller
    maxIterations, \* 2-opt: the iteration cap the function is called with
    numClusters,  \* clusterStops: the number of clusters asked for
    centroids,    \* clusterStops: the centroids chosen so far, as stop ids
    clusters,     \* clusterStops: the clusters returned
    firstClusters, \* the clusters the first call returned, kept by the caller
    pointA,       \* haversineDistance: the first point, <<lat, lon>> in degrees
    pointB,       \* haversineDistance: the second point
    distAB,       \* haversineDistance(A, B) as computed
    distBA,       \* haversineDistance(B, A) as computed
    distAA,       \* haversineDistance(A, A) as computed
    routeRuns,    \* the route_runs table: run id -> [company_id, status]
    customers,    \* the customers table: customer id -> [company_id, route_template_id]
    http,         \* the last request served: [endpoint, tenant, token, status]
    accessed,     \* the rows the last request read or modified: [table, company_id, how]
    runStops,     \* route_run_stops of one run: stop id -> [status, gallons_delivered, delivery_total]
    runStats,     \* the run's row: [stops_completed, total_gallons_delivered, total_revenue]
    handlers,     \* the stop-update handlers in flight: handler -> [pc, stats]
    stopNumbers   \* route_stops.stop_number of the stored route: stop id -> stop_number

optVars == <<entry, depot, rows, request, geo, pc, outcome, errorMsg, validStops, visited,
             route, current, nnRoute, bestRoute, i, j, improved, iterations,
             result, run, mode, first, maxIterations>>

clusterVars == <<numClusters, centroids, clusters, firstClusters>>

havVars == <<pointA, pointB, distAB, distBA, distAA>>

apiVars == <<routeRuns, customers, http, accessed>>

\* The variables no optimization request touches.
stopVars == <<runStops, runStats, handlers>>

sideVars == <<clusterVars, havVars, apiVars, stopVars, stopNumbers>>

vars == <<optVars, sideVars>>

\* --------------------------------------------------------- JavaScript values
\* 0-based array read.
At(a, k) == a[k + 1]

\* a.slice(from, to)
Slice(a, from, to) == SubSeq(a, from + 1, to)

\* a.reverse()
Reverse(a) == [k \in 1..Len(a) |-> a[Len(a) + 1 - k]]

\* Math.round(num / den) for den > 0: rounds half up.
JSRound(num, den) == (2 * num + den) \div (2 * den)

\* Set of elements of a sequence.
Range(a) == {a[k] : k \in 1..Len(a)}

\* Raw coordinate values, by the classes the checks tell apart.  A DECIMAL
\* column arrives as a string ("s:..."), a caller of the utilities passes
\* numbers ("n:..."); "null" is SQL NULL or a missing property.  0 is a valid
\* coordinate; "in-range" is any non-zero coordinate within the range of its
\* axis and "out-of-range" any finite one beyond it.  Where the places of two
\* in-range locations lie is told by their distance (geo).
DbValues == {"null", "s:0.000000", "s:in-range", "s:out-of-range"}
JsValues == {"null", "n:0", "n:in-range", "n:out-of-range"}

\* No distribution center row (rows.length === 0) or no depot argument.
NoRow == [lat |-> "absent", lng |-> "absent"]

\* Rows drawn for a request: the latitude varies, the longitude is NULL with
\* it or a valid non-zero value.
DbLocations == {[lat |-> v, lng |-> IF v = "null" THEN "null" ELSE "s:in-range"] : v \in DbValues}
JsLocations == {[lat |-> v, lng |-> IF v = "null" THEN "null" ELSE "n:in-range"] : v \in JsValues}

\* JavaScript truthiness of a raw value.
Truthy(x) == x \notin {"null", "absent", "n:0", "n:NaN"}

\* parseFloat(x)
parseFloat(x) ==
    CASE x = "null" -> "n:NaN"
      [] x = "absent" -> "n:NaN"
      [] x = "s:0.000000" -> "n:0"
      [] x = "s:in-range" -> "n:in-range"
      [] x = "s:out-of-range" -> "n:out-of-range"
      [] x = "s:text" -> "n:NaN"
      [] OTHER -> x

\* isNaN(x) of a number
isNaN(x) == x = "n:NaN"

\* The data model's invariant on a coordinate: finite, latitude in [-90, 90],
\* longitude in [-180, 180].
CoordinateValid(loc) ==
    /\ parseFloat(loc.lat) \in {"n:0", "n:in-range"}
    /\ parseFloat(loc.lng) \in {"n:0", "n:in-range"}

Entries == {"optimize-route", "route-optimizer", "route-utils", "routes-v2"}

\* The depot rows and the stop rows a request to entry point e may meet.  A stop
\* row is missing, at latitude 0, or at a valid non-zero latitude.
DepotRowsOf(e) == (IF e = "route-utils" THEN JsLocations ELSE DbLocations) \cup {NoRow}
StopRowsOf(e) ==
    {r \in (IF e = "route-utils" THEN JsLocations ELSE DbLocations) :
        parseFloat(r.lat) # "n:out-of-range"}

\* ------------------------------------------------------------------ geometry
\* NaN as a distance, and "x < y" of two distances: no comparison with NaN holds.
NaN == -1
Less(x, y) == x # NaN /\ y # NaN /\ x < y

\* "s:text" is a string that is not a numeral ("abc"): truthy, and NaN under
\* the subtraction "lat2 - lat1" of haversineDistance.
NonNumeric(loc) == loc.lat = "s:text" \/ loc.lng = "s:text"

\* Unordered pairs of the ids 0 (depot) and the given stop ids.
PairsOf(ids) == {p \in (ids \cup {0}) \X (ids \cup {0}) : p[1] < p[2]}

\* haversineDistance of two accepted locations, by id.  It is symmetric and is 0
\* for a location and itself.
haversineDistance(a, b) ==
    IF a = b THEN 0
    ELSE IF a < b THEN geo[<<a, b>>] ELSE geo[<<b, a>>]

\* locations = [depot, ...stops]: location index -> id
Location(k) == IF k = 0 THEN 0 ELSE validStops[k]

\* buildDistanceMatrix(locations)[a][b]
distanceMatrix(a, b) == IF a = b THEN 0 ELSE haversineDistance(Location(a), Location(b))

\* Number of locations, depot included.
NumLocations == Len(validStops) + 1

\* ------------------------------------------------------------ the requests
\* The coordinate filter of each entry point, on one stop row.
\* stops.filter(s => s.lat && s.lng && !isNaN(s.lat) && !isNaN(s.lng)) after
\* lat: parseFloat(row.lat), lng: parseFloat(row.lng)
OR_keeps(row) ==
    /\ Truthy(parseFloat(row.lat)) /\ Truthy(parseFloat(row.lng))
    /\ ~isNaN(parseFloat(row.lat)) /\ ~isNaN(parseFloat(row.lng))

\* stopsResult.rows.filter(s => s.lat && s.lng)
RO_keeps(row) == Truthy(row.lat) /\ Truthy(row.lng)

\* stops.filter(s => s.lat && s.lng)
RU_keeps(row) == Truthy(row.lat) /\ Truthy(row.lng)

\* WHERE id = ANY($1) AND company_id = $2 AND lat IS NOT NULL
V2_keeps(row) == row.lat # "null"

\* The stop ids of the request whose row the entry point keeps, in order.
OR_filter == SelectSeq(request, LAMBDA s : OR_keeps(rows[s]))
RO_filter == SelectSeq(request, LAMBDA s : RO_keeps(rows[s]))
RU_filter == SelectSeq(request, LAMBDA s : RU_keeps(rows[s]))
V2_filter == SelectSeq(request, LAMBDA s : V2_keeps(rows[s]))

\* The depot check of each entry point: TRUE when the depot is refused.
\* dcResult.rows.length === 0, then !depot.lat || !depot.lng
OR_depotRefused == depot = NoRow \/ ~Truthy(depot.lat) \/ ~Truthy(depot.lng)

\* routeResult.rows.length === 0 (the join finds no row), then !route.dc_lat || !route.dc_lng
RO_depotRefused == depot = NoRow \/ ~Truthy(depot.lat) \/ ~Truthy(depot.lng)

\* !depot || !depot.lat || !depot.lng
RU_depotRefused == depot = NoRow \/ ~Truthy(depot.lat) \/ ~Truthy(depot.lng)

\* dcResult.rows.length === 0 || !dcResult.rows[0].lat
V2_depotRefused == depot = NoRow \/ ~Truthy(depot.lat)

NoResult == [stops |-> <<>>, original |-> 0, optimized |-> 0, saved |-> 0,
             percent |-> 0, percentDefined |-> TRUE, fuelCost |-> 0]

inputVars == <<entry, depot, rows, request, run, mode, first, maxIterations>>
nnVars == <<visited, route, current>>
twoOptVars == <<bestRoute, i, j, improved, iterations>>

\* The handler returns error(...): nothing else of the request is computed.
Fail(msg) ==
    /\ outcome' = "error"
    /\ errorMsg' = msg
    /\ pc' = "done"
    /\ UNCHANGED <<sideVars, inputVars, geo, validStops, nnVars, nnRoute, twoOptVars, result>>

\* The distance tables the kept stops and the depot may have: every location at
\* a place of its own, or every stop at the depot's coordinates.
Geometries(ids) == [PairsOf(ids) -> DistVals] \cup {[p \in PairsOf(ids) |-> 0]}

\* The coordinates of the kept stops fix their distances.  The first call draws
\* them; a repeated call meets the same coordinates.
DrawGeo(kept) ==
    IF run = 1
    THEN \E g \in Geometries(Range(kept)) :
            geo' = [p \in DOMAIN g |->
                       IF \E id \in {p[1], p[2]} :
                             NonNumeric(IF id = 0 THEN depot ELSE rows[id])
                       THEN NaN ELSE g[p]]
    ELSE geo' = geo

\* The locations are fixed by the kept stops and the handler calls the
\* construction, which starts at the depot with the route r0.
Accept(kept, r0) ==
    /\ validStops' = kept
    /\ DrawGeo(kept)
    /\ visited' = {0}
    /\ route' = r0
    /\ current' = 0
    /\ pc' = "nn"
    /\ UNCHANGED <<sideVars, inputVars, outcome, errorMsg, nnRoute, twoOptVars, result>>

\* A faulty variant of OR_optimizeRoute, without "if (stops.length === 0)":
\* an empty stop list goes on to the construction.
OR_optimizeRoute_noEmptyCheck ==
    /\ pc = "request" /\ entry = "optimize-route"
    /\ IF Len(request) = 0 THEN Fail("At least one customer or order required")
       ELSE IF depot = NoRow THEN Fail("Distribution center not found")
       ELSE IF OR_depotRefused THEN Fail("Distribution center is missing GPS coordinates")
       ELSE Accept(OR_filter, <<0>>)

\* optimize-route.js optimizeRoute, up to the locations array.
OR_optimizeRoute ==
    /\ pc = "request" /\ entry = "optimize-route"
    /\ IF Len(request) = 0 THEN Fail("At least one customer or order required")
       ELSE IF depot = NoRow THEN Fail("Distribution center not found")
       ELSE IF OR_depotRefused THEN Fail("Distribution center is missing GPS coordinates")
       ELSE IF Len(OR_filter) = 0 THEN Fail("No stops with valid GPS coordinates")
       ELSE Accept(OR_filter, <<0>>)

\* route-optimizer.js optimizeRoute, up to the locations array.
RO_optimizeRoute ==
    /\ pc = "request" /\ entry = "route-optimizer"
    /\ IF depot = NoRow THEN Fail("Route not found")
       ELSE IF RO_depotRefused THEN Fail("Distribution center does not have GPS coordinates")
       ELSE IF Len(request) = 0 THEN Fail("Route has no stops")
       ELSE IF Len(RO_filter) = 0 THEN Fail("No stops have GPS coordinates")
       ELSE Accept(RO_filter, <<0>>)

\* route utilities optimizeRoute, up to the nearestNeighbor call.
RU_optimizeRoute ==
    /\ pc = "request" /\ entry = "route-utils"
    /\ IF Len(request) = 0 THEN Fail("No stops to optimize")
       ELSE IF RU_depotRefused THEN Fail("Distribution center location required")
       ELSE IF Len(RU_filter) = 0 THEN Fail("No stops have valid GPS coordinates")
       ELSE Accept(RU_filter, <<>>)

\* routes-v2.js optimizeStops, up to the nearestNeighborOptimize call.
V2_optimizeStops ==
    /\ pc = "request" /\ entry = "routes-v2"
    /\ IF Len(request) < 2 THEN Fail("At least 2 customers required")
       ELSE IF V2_depotRefused THEN Fail("Distribution center not found or missing coordinates")
       ELSE IF Len(V2_filter) < 2 THEN Fail("Not enough customers with valid coordinates")
       ELSE Accept(V2_filter, <<>>)

\* ------------------------------------------------- nearest neighbour (OR, RO)
\* The scan "for (let i = 0; i < n; i++) if (!visited.has(i) &&
\* distanceMatrix[current][i] < nearestDist)" from index k on; best is nearest so
\* far, -1 while nearestDist is still Infinity.
\* A faulty variant of the scan: "<=" for "<", so that the last of several
\* nearest locations is taken.
RECURSIVE NearestFrom_lastOnTie(_, _)
NearestFrom_lastOnTie(k, best) ==
    IF k >= NumLocations THEN best
    ELSE IF /\ k \notin visited
            /\ IF best = -1 THEN distanceMatrix(current, k) # NaN
               ELSE ~Less(distanceMatrix(current, best), distanceMatrix(current, k))
         THEN NearestFrom_lastOnTie(k + 1, k)
         ELSE NearestFrom_lastOnTie(k + 1, best)

RECURSIVE NearestFrom(_, _)
NearestFrom(k, best) ==
    IF k >= NumLocations THEN best
    ELSE IF /\ k \notin visited
            /\ IF best = -1 THEN distanceMatrix(current, k) # NaN
               ELSE Less(distanceMatrix(current, k), distanceMatrix(current, best))
         THEN NearestFrom(k + 1, k)
         ELSE NearestFrom(k + 1, best)

OR_nearest == NearestFrom(0, -1)
RO_nearest == NearestFrom(0, -1)

\* A faulty variant of NearestNeighborStep: among the unvisited locations at the
\* least distance any one is taken, not the one of lowest index.
NearestNeighborStep_anyTie(nearest) ==
    /\ Cardinality(visited) < NumLocations
    /\ \E k \in (0..(NumLocations - 1)) \ visited :
          /\ \A m \in (0..(NumLocations - 1)) \ visited :
                distanceMatrix(current, k) <= distanceMatrix(current, m)
          /\ visited' = visited \cup {k}
          /\ route' = Append(route, k)
          /\ current' = k
    /\ UNCHANGED <<sideVars, inputVars, geo, validStops, pc, outcome, errorMsg, nnRoute,
                   twoOptVars, result>>

\* A faulty variant of NearestNeighborStep: the current location is pushed to
\* the route in place of the nearest one.
NearestNeighborStep_pushesCurrent(nearest) ==
    /\ Cardinality(visited) < NumLocations
    /\ IF nearest # -1
       THEN /\ visited' = visited \cup {nearest}
            /\ route' = Append(route, current)
            /\ current' = nearest
       ELSE UNCHANGED nnVars
    /\ UNCHANGED <<sideVars, inputVars, geo, validStops, pc, outcome, errorMsg, nnRoute,
                   twoOptVars, result>>

\* One iteration of "while (visited.size < n)".
NearestNeighborStep(nearest) ==
    /\ Cardinality(visited) < NumLocations
    /\ IF nearest # -1
       THEN /\ visited' = visited \cup {nearest}
            /\ route' = Append(route, nearest)
            /\ current' = nearest
       ELSE UNCHANGED nnVars
    /\ UNCHANGED <<sideVars, inputVars, geo, validStops, pc, outcome, errorMsg, nnRoute,
                   twoOptVars, result>>

\* The loop ends, nearestNeighbor returns r, and the 2-opt function is entered.
NearestNeighborReturn(r) ==
    /\ nnRoute' = r
    /\ bestRoute' = r
    /\ improved' = TRUE
    /\ iterations' = 0
    /\ i' = -1
    /\ j' = -1
    /\ pc' = "twoOpt"
    /\ UNCHANGED <<sideVars, inputVars, geo, validStops, nnVars, outcome, errorMsg, result>>

OR_nearestNeighborStep ==
    /\ pc = "nn" /\ entry = "optimize-route"
    /\ NearestNeighborStep(OR_nearest)

\* route.push(startIndex); return route
OR_nearestNeighborReturn ==
    /\ pc = "nn" /\ entry = "optimize-route"
    /\ Cardinality(visited) >= NumLocations
    /\ NearestNeighborReturn(Append(route, 0))

RO_nearestNeighborStep ==
    /\ pc = "nn" /\ entry = "route-optimizer"
    /\ NearestNeighborStep(RO_nearest)

\* return route
RO_nearestNeighborReturn ==
    /\ pc = "nn" /\ entry = "route-optimizer"
    /\ Cardinality(visited) >= NumLocations
    /\ NearestNeighborReturn(route)

\* --------------------------------------------------------------- 2-opt loops
\* The pairs (i, j) one pass visits, in loop order (lexicographic).
\* A faulty variant of the scan: "j < len - 2", which leaves out the pairs
\* ending at the last stop.
InteriorPairs_shortScan(len) == {p \in (1..(len - 3)) \X (2..(len - 3)) : p[1] < p[2]}

\* for (i = 1; i < len - 2; i++) for (j = i + 1; j < len - 1; j++)
InteriorPairs(len) == {p \in (1..(len - 3)) \X (2..(len - 2)) : p[1] < p[2]}

\* for (i = 0; i < len - 1; i++) for (j = i + 2; j < len; j++)
RU_Pairs(len) == {p \in (0..(len - 2)) \X (2..(len - 1)) : p[1] + 2 <= p[2]}

LexLess(p, q) == p[1] < q[1] \/ (p[1] = q[1] /\ p[2] < q[2])

\* The first pair of a pass.
FirstPair(P) == CHOOSE p \in P : \A q \in P : p = q \/ LexLess(p, q)

\* The pairs of the pass still to come after (a, b).
PairsAfter(P, a, b) == {q \in P : LexLess(<<a, b>>, q)}

\* Sum of distanceMatrix[r[k]][r[k + 1]] over the legs of r.
RECURSIVE SumLegs(_)
SumLegs(r) ==
    IF Len(r) <= 1 THEN 0
    ELSE distanceMatrix(r[1], r[2]) + SumLegs(Tail(r))

\* The head of "while (improved && iterations < maxIterations)" when the loop is
\* entered: a pass begins at its first pair, or is over at once when it has none.
BeginPass(P) ==
    /\ improved' = FALSE
    /\ iterations' = iterations + 1
    /\ IF P = {}
       THEN UNCHANGED <<i, j, pc>>
       ELSE /\ i' = FirstPair(P)[1]
            /\ j' = FirstPair(P)[2]
            /\ pc' = "pair"
    /\ UNCHANGED <<sideVars, inputVars, geo, validStops, nnVars, nnRoute, bestRoute, outcome,
                   errorMsg, result>>

\* The loop is left and the 2-opt function returns bestRoute.
EndTwoOpt ==
    /\ pc' = "respond"
    /\ UNCHANGED <<sideVars, inputVars, geo, validStops, nnVars, nnRoute, twoOptVars, outcome,
                   errorMsg, result>>

\* The body of the inner loop at (i, j): the reversal is taken when accept holds;
\* then the loops move to the next pair, or the pass is over.
PairStep(P, accept, swapped) ==
    /\ IF accept
       THEN bestRoute' = swapped /\ improved' = TRUE
       ELSE UNCHANGED <<bestRoute, improved>>
    /\ IF PairsAfter(P, i, j) = {}
       THEN i' = -1 /\ j' = -1 /\ pc' = "twoOpt"
       ELSE /\ i' = FirstPair(PairsAfter(P, i, j))[1]
            /\ j' = FirstPair(PairsAfter(P, i, j))[2]
            /\ pc' = "pair"
    /\ UNCHANGED <<sideVars, inputVars, geo, validStops, nnVars, nnRoute, iterations, outcome,
                   errorMsg, result>>

\* ------------------------------------------------- optimize-route.js twoOpt
\* A faulty variant of calculateTwoOptDelta: the difference taken the other way
\* round.
calculateTwoOptDelta_reversedSign(r, a, b) ==
    LET currentDist == distanceMatrix(At(r, a - 1), At(r, a)) + distanceMatrix(At(r, b), At(r, b + 1))
        newDist == distanceMatrix(At(r, a - 1), At(r, b)) + distanceMatrix(At(r, a), At(r, b + 1))
    IN  currentDist - newDist

\* calculateTwoOptDelta(route, distanceMatrix, i, j)
calculateTwoOptDelta(r, a, b) ==
    LET currentDist == distanceMatrix(At(r, a - 1), At(r, a)) + distanceMatrix(At(r, b), At(r, b + 1))
        newDist == distanceMatrix(At(r, a - 1), At(r, b)) + distanceMatrix(At(r, a), At(r, b + 1))
    IN  newDist - currentDist

\* A faulty variant of twoOptSwap: the segment is overwritten with its first
\* element instead of being reversed.
twoOptSwap_overwriting(r, a, b) ==
    Slice(r, 0, a) \o [k \in 1..(b + 1 - a) |-> At(r, a)] \o Slice(r, b + 1, Len(r))

\* A faulty variant of twoOptSwap: the reversed segment begins one position
\* early, at the depot when i is 1.
twoOptSwap_fromPrevious(r, a, b) ==
    Slice(r, 0, a - 1) \o Reverse(Slice(r, a - 1, b + 1)) \o Slice(r, b + 1, Len(r))

\* twoOptSwap(route, i, j)
twoOptSwap(r, a, b) ==
    Slice(r, 0, a) \o Reverse(Slice(r, a, b + 1)) \o Slice(r, b + 1, Len(r))

\* if (delta < -0.001)
OR_accepts(r, a, b) == calculateTwoOptDelta(r, a, b) < -OR_epsilon

\* A faulty variant of the loop head: the pass count is not compared with the cap.
OR_twoOptPass_noCap ==
    /\ pc = "twoOpt" /\ entry = "optimize-route"
    /\ improved
    /\ BeginPass(InteriorPairs(Len(bestRoute)))

OR_twoOptPass ==
    /\ pc = "twoOpt" /\ entry = "optimize-route"
    /\ improved /\ iterations < maxIterations
    /\ BeginPass(InteriorPairs(Len(bestRoute)))

OR_twoOptReturn ==
    /\ pc = "twoOpt" /\ entry = "optimize-route"
    /\ ~(improved /\ iterations < maxIterations)
    /\ EndTwoOpt

OR_twoOptPair ==
    /\ pc = "pair" /\ entry = "optimize-route"
    /\ PairStep(InteriorPairs(Len(bestRoute)), OR_accepts(bestRoute, i, j),
                twoOptSwap(bestRoute, i, j))

\* -------------------------------------------- route-optimizer.js twoOptImprove
\* currentDist at (i, j)
RO_currentDist(r, a, b) ==
    distanceMatrix(At(r, a - 1), At(r, a)) + distanceMatrix(At(r, b), At(r, b + 1))

\* A faulty variant of newDist: the leg after the segment is taken from
\* bestRoute[j] instead of bestRoute[i].
RO_newDist_keepsLastLeg(r, a, b) ==
    distanceMatrix(At(r, a - 1), At(r, b)) + distanceMatrix(At(r, b), At(r, b + 1))

\* newDist at (i, j)
RO_newDist(r, a, b) ==
    distanceMatrix(At(r, a - 1), At(r, b)) + distanceMatrix(At(r, a), At(r, b + 1))

\* if (newDist < currentDist - 0.001)
RO_accepts(r, a, b) == RO_newDist(r, a, b) < RO_currentDist(r, a, b) - RO_epsilon

\* The swap loop "while (left < right)" on a copy of bestRoute: positions a..b
\* end up reversed.
RO_reverse(r, a, b) ==
    [k \in 1..Len(r) |-> IF a <= k - 1 /\ k - 1 <= b THEN At(r, a + b - (k - 1)) ELSE r[k]]

RO_twoOptPass ==
    /\ pc = "twoOpt" /\ entry = "route-optimizer"
    /\ improved /\ iterations < maxIterations
    /\ BeginPass(InteriorPairs(Len(bestRoute)))

RO_twoOptReturn ==
    /\ pc = "twoOpt" /\ entry = "route-optimizer"
    /\ ~(improved /\ iterations < maxIterations)
    /\ EndTwoOpt

RO_twoOptPair ==
    /\ pc = "pair" /\ entry = "route-optimizer"
    /\ PairStep(InteriorPairs(Len(bestRoute)), RO_accepts(bestRoute, i, j),
                RO_reverse(bestRoute, i, j))

\* calculateTotalDistance(route, distanceMatrix), returnToStart = true
calculateTotalDistance(r) ==
    SumLegs(r) + (IF Len(r) > 1 THEN distanceMatrix(At(r, Len(r) - 1), At(r, 0)) ELSE 0)

\* ------------------------------------------------ route utilities (RU)
\* calculateRouteDistance(stops, depot): depot to the first stop, the legs
\* between consecutive stops, and the last stop back to the depot.  r holds the
\* stops as location indices.
calculateRouteDistance(r) ==
    IF Len(r) = 0 THEN 0
    ELSE distanceMatrix(0, At(r, 0)) + SumLegs(r) + distanceMatrix(At(r, Len(r) - 1), 0)

\* "for (let i = 1; i <= n; i++)" of nearestNeighbor, nearest = null as -1
RU_nearest == NearestFrom(1, -1)

\* One iteration of "while (route.length < n)"; the function is past its early
\* return "stops.length <= 1".
RU_nearestNeighborStep ==
    /\ pc = "nn" /\ entry = "route-utils"
    /\ Len(validStops) > 1
    /\ Len(route) < Len(validStops)
    /\ IF RU_nearest # -1
       THEN /\ visited' = visited \cup {RU_nearest}
            /\ route' = Append(route, RU_nearest)
            /\ current' = RU_nearest
       ELSE UNCHANGED nnVars
    /\ UNCHANGED <<sideVars, inputVars, geo, validStops, pc, outcome, errorMsg, nnRoute,
                   twoOptVars, result>>

\* "if (!stops || stops.length <= 1) return stops" or "return route.map(i => stops[i])"
RU_nearestNeighborReturn ==
    /\ pc = "nn" /\ entry = "route-utils"
    /\ Len(validStops) <= 1 \/ Len(route) >= Len(validStops)
    /\ NearestNeighborReturn(IF Len(validStops) <= 1
                              THEN [k \in 1..Len(validStops) |-> k]
                              ELSE route)

\* newRoute of twoOptImprove at (i, j)
RU_newRoute(r, a, b) ==
    Slice(r, 0, a + 1) \o Reverse(Slice(r, a + 1, b + 1)) \o Slice(r, b + 1, Len(r))

\* if (newDistance < bestDistance - 0.01); bestDistance is
\* calculateRouteDistance of the route held.
RU_accepts(r, a, b) ==
    calculateRouteDistance(RU_newRoute(r, a, b)) < calculateRouteDistance(r) - RU_epsilon

\* The loop is entered only past "if (!stops || stops.length <= 2) return stops".
RU_twoOptPass ==
    /\ pc = "twoOpt" /\ entry = "route-utils"
    /\ Len(bestRoute) > 2
    /\ improved /\ iterations < maxIterations
    /\ BeginPass(RU_Pairs(Len(bestRoute)))

RU_twoOptReturn ==
    /\ pc = "twoOpt" /\ entry = "route-utils"
    /\ ~(Len(bestRoute) > 2 /\ improved /\ iterations < maxIterations)
    /\ EndTwoOpt

RU_twoOptPair ==
    /\ pc = "pair" /\ entry = "route-utils"
    /\ PairStep(RU_Pairs(Len(bestRoute)), RU_accepts(bestRoute, i, j),
                RU_newRoute(bestRoute, i, j))

\* ------------------------------------------ routes-v2.js nearestNeighborOptimize
\* The unvisited array: the customers not yet spliced out, in their order.
V2_unvisited == SelectSeq([k \in 1..Len(validStops) |-> k], LAMBDA k : k \notin visited)

\* The scan over unvisited with "dist < nearestDist"; nearestIdx stays 0 when
\* no distance compares less than Infinity.
V2_nearest == IF NearestFrom(1, -1) = -1 THEN V2_unvisited[1] ELSE NearestFrom(1, -1)

\* One iteration of "while (unvisited.length > 0)".
V2_nearestNeighborStep ==
    /\ pc = "nn" /\ entry = "routes-v2"
    /\ Len(V2_unvisited) > 0
    /\ visited' = visited \cup {V2_nearest}
    /\ route' = Append(route, V2_nearest)
    /\ current' = V2_nearest
    /\ UNCHANGED <<sideVars, inputVars, geo, validStops, pc, outcome, errorMsg, nnRoute,
                   twoOptVars, result>>

\* return route: optimizeStops has no improvement phase.
V2_nearestNeighborReturn ==
    /\ pc = "nn" /\ entry = "routes-v2"
    /\ Len(V2_unvisited) = 0
    /\ nnRoute' = route
    /\ bestRoute' = route
    /\ pc' = "respond"
    /\ UNCHANGED <<sideVars, inputVars, geo, validStops, nnVars, i, j, improved, iterations,
                   outcome, errorMsg, result>>

\* ---------------------------------------------------------------- responses
\* The stop ids of a sequence of location indices.
StopIds(r) == [k \in 1..Len(r) |-> Location(r[k])]

\* Math.round(fuelGallons * fuelPrice * 100) / 100 in cents, for a distance t
\* in thousandths of a mile, at the default price and mileage.
FuelCostCents(t) == JSRound(t * FuelPriceCents, 1000 * TruckMpg)

Respond(r) ==
    /\ result' = r
    /\ outcome' = "success"
    /\ pc' = "done"
    /\ UNCHANGED <<sideVars, inputVars, geo, validStops, nnVars, nnRoute, twoOptVars, errorMsg>>

\* optimize-route.js: calculateRouteMetrics of nnRoute and of optimizedRoute,
\* orderedStops and the savings block.  Miles are reported in hundredths, the
\* percentage in whole percent.
OR_result ==
    LET originalMiles == JSRound(SumLegs(nnRoute), 10)
        optimizedMiles == JSRound(SumLegs(bestRoute), 10)
        milesSaved == originalMiles - optimizedMiles
    IN  [stops |-> StopIds(Slice(bestRoute, 1, Len(bestRoute) - 1)),
         original |-> originalMiles,
         optimized |-> optimizedMiles,
         saved |-> milesSaved,
         percent |-> IF originalMiles > 0 THEN JSRound(milesSaved * 100, originalMiles) ELSE 0,
         percentDefined |-> TRUE,
         fuelCost |-> FuelCostCents(SumLegs(bestRoute))]

OR_respond ==
    /\ pc = "respond" /\ entry = "optimize-route"
    /\ Respond(OR_result)

\* route-optimizer.js: originalDistance of the stored order, optimizedDistance,
\* percentSaved = (distanceSaved / originalDistance) * 100.  Miles are reported
\* in hundredths, the percentage in tenths of a percent; the quotient is not a
\* number when originalDistance is 0.
RO_result ==
    LET originalDistance == calculateTotalDistance([k \in 1..NumLocations |-> k - 1])
        optimizedDistance == calculateTotalDistance(bestRoute)
        distanceSaved == originalDistance - optimizedDistance
    IN  [stops |-> StopIds(SelectSeq(bestRoute, LAMBDA x : x # 0)),
         original |-> JSRound(originalDistance, 10),
         optimized |-> JSRound(optimizedDistance, 10),
         saved |-> JSRound(distanceSaved, 10),
         percent |-> IF originalDistance # 0
                     THEN JSRound(distanceSaved * 1000, originalDistance) ELSE 0,
         percentDefined |-> originalDistance # 0,
         fuelCost |-> FuelCostCents(optimizedDistance)]

RO_respond ==
    /\ pc = "respond" /\ entry = "route-optimizer"
    /\ Respond(RO_result)

\* route utilities: originalDistance of validStops as given, optimizedDistance,
\* percentSaved guarded by originalDistance > 0.  Miles are reported in tenths,
\* the percentage in tenths of a percent.
RU_result ==
    LET originalDistance == calculateRouteDistance([k \in 1..Len(validStops) |-> k])
        optimizedDistance == calculateRouteDistance(bestRoute)
        milesSaved == originalDistance - optimizedDistance
    IN  [stops |-> StopIds(bestRoute),
         original |-> JSRound(originalDistance, 100),
         optimized |-> JSRound(optimizedDistance, 100),
         saved |-> JSRound(milesSaved, 100),
         percent |-> IF originalDistance > 0
                     THEN JSRound(milesSaved * 1000, originalDistance) ELSE 0,
         percentDefined |-> TRUE,
         fuelCost |-> FuelCostCents(optimizedDistance)]

RU_respond ==
    /\ pc = "respond" /\ entry = "route-utils"
    /\ Respond(RU_result)

\* routes-v2.js: the stops in nearest-neighbour order and total_miles in
\* tenths; the response has no original distance, savings or fuel cost.
V2_result ==
    [stops |-> StopIds(bestRoute),
     original |-> 0,
     optimized |-> JSRound(calculateRouteDistance(bestRoute), 100),
     saved |-> 0,
     percent |-> 0,
     percentDefined |-> TRUE,
     fuelCost |-> 0]

V2_respond ==
    /\ pc = "respond" /\ entry = "routes-v2"
    /\ Respond(V2_result)

\* ------------------------------------------------------------ specification
\* The value of a distance that has not been computed.
NoDistance == [s |-> 0, m |-> <<"none", {}>>]

\* No distance is being computed on its own.
HavIdle ==
    /\ pointA = <<0, 0>>
    /\ pointB = <<0, 0>>
    /\ distAB = NoDistance
    /\ distBA = NoDistance
    /\ distAA = NoDistance

\* The companies, and the ids of the rows of each table: row 1 is of company
\* "X" and row 2 of company "Y", in the tables whose rows are not created here.
Companies == {"X", "Y"}
RowIds == {1, 2}
OwnerOf(id) == IF id = 1 THEN "X" ELSE "Y"

\* Largest number of rows of route_runs.
MaxRuns == 1

NoRun == [company_id |-> "none", status |-> "absent"]
NoRequest == [endpoint |-> "none", tenant |-> "none", token |-> "none", status |-> 0]

\* Largest number of stops of the run whose stops are updated, and of handlers
\* serving stop updates at the same time.
MaxRunStops == 2
MaxHandlers == 2

NoStats == [stops_completed |-> 0, total_gallons_delivered |-> 0, total_revenue |-> 0]

\* The run as created: every stop pending, nothing delivered, no handler running.
StopIdle ==
    /\ runStops = [k \in 1..MaxRunStops |->
                      [status |-> "pending", gallons_delivered |-> 0, delivery_total |-> 0]]
    /\ runStats = NoStats
    /\ handlers = [h \in 1..MaxHandlers |-> [pc |-> "idle", stats |-> NoStats]]

\* The tables before any request: no run, no customer on a template.
ApiIdle ==
    /\ routeRuns = [r \in 1..MaxRuns |-> NoRun]
    /\ customers = [c \in RowIds |-> [company_id |-> OwnerOf(c), route_template_id |-> 0]]
    /\ http = NoRequest
    /\ accessed = {}

\* The default of the maxIterations parameter, with which every handler calls
\* its 2-opt function; routes-v2 has none.
DefaultMaxIterations(e) ==
    CASE e = "optimize-route" -> OR_maxIterations
      [] e = "route-optimizer" -> RO_maxIterations
      [] e = "route-utils" -> RU_maxIterations
      [] OTHER -> 0

\* A request arrives: nothing of it is computed yet.
\* depots[e] and stops[e] are the depot rows and the stop rows of entry point e.
InitRequestFrom(depots, stops) ==
    /\ entry \in Entries
    /\ depot \in depots[entry]
    /\ \E n \in 0..MaxStops :
          /\ rows \in [1..n -> stops[entry]]
          /\ request = [k \in 1..n |-> k]
    /\ geo = [p \in {} |-> 0]
    /\ pc = "request"
    /\ outcome = "pending"
    /\ errorMsg = ""
    /\ validStops = <<>>
    /\ visited = {}
    /\ route = <<>>
    /\ current = 0
    /\ nnRoute = <<>>
    /\ bestRoute = <<>>
    /\ i = -1
    /\ j = -1
    /\ improved = FALSE
    /\ iterations = 0
    /\ result = NoResult
    /\ run = 1
    /\ mode = "first"
    /\ first = NoResult
    /\ numClusters = 0
    /\ centroids = <<>>
    /\ clusters = <<>>
    /\ firstClusters = <<>>
    /\ HavIdle
    /\ ApiIdle
    /\ StopIdle

InitRequest ==
    InitRequestFrom([e \in Entries |-> DepotRowsOf(e)], [e \in Entries |-> StopRowsOf(e)])

Init ==
    /\ InitRequest
    /\ maxIterations = DefaultMaxIterations(entry)
    /\ stopNumbers = <<>>

Next ==
    \/ OR_optimizeRoute \/ OR_nearestNeighborStep \/ OR_nearestNeighborReturn
    \/ OR_twoOptPass \/ OR_twoOptPair \/ OR_twoOptReturn \/ OR_respond
    \/ RO_optimizeRoute \/ RO_nearestNeighborStep \/ RO_nearestNeighborReturn
    \/ RO_twoOptPass \/ RO_twoOptPair \/ RO_twoOptReturn \/ RO_respond
    \/ RU_optimizeRoute \/ RU_nearestNeighborStep \/ RU_nearestNeighborReturn
    \/ RU_twoOptPass \/ RU_twoOptPair \/ RU_twoOptReturn \/ RU_respond
    \/ V2_optimizeStops \/ V2_nearestNeighborStep \/ V2_nearestNeighborReturn
    \/ V2_respond

Spec == Init /\ [][Next]_vars

\* The caller calls the same entry point again after a success: with the same
\* request, or with the stops in the order the first call returned.  The rows
\* and so the coordinates are those of the first call.
Rerun ==
    /\ pc = "done" /\ outcome = "success" /\ run = 1
    /\ \E m \in {"same", "reordered"} :
          /\ mode' = m
          /\ request' = IF m = "same" THEN request ELSE result.stops
    /\ first' = result
    /\ run' = 2
    /\ pc' = "request"
    /\ outcome' = "pending"
    /\ errorMsg' = ""
    /\ validStops' = <<>>
    /\ visited' = {}
    /\ route' = <<>>
    /\ current' = 0
    /\ nnRoute' = <<>>
    /\ bestRoute' = <<>>
    /\ i' = -1
    /\ j' = -1
    /\ improved' = FALSE
    /\ iterations' = 0
    /\ result' = NoResult
    /\ UNCHANGED <<entry, depot, rows, geo, maxIterations, sideVars>>

NextRerun == Next \/ Rerun

\* The repeated calls are followed for requests whose depot and stops all have
\* non-zero coordinates in range, which every entry point keeps.
InitRerun ==
    /\ Init
    /\ parseFloat(depot.lat) = "n:in-range"
    /\ \A s \in DOMAIN rows : parseFloat(rows[s].lat) = "n:in-range"

SpecRerun == InitRerun /\ [][NextRerun]_vars

\* The 2-opt functions take the cap as a parameter (maxIterations = 1000, or
\* 100 in the route utilities).  Here it is varied over small values, for
\* requests whose depot and stops all have non-zero coordinates in range.
InitCap ==
    /\ InitRequest
    /\ maxIterations \in 1..MaxCap
    /\ stopNumbers = <<>>
    /\ parseFloat(depot.lat) = "n:in-range"
    /\ \A s \in DOMAIN rows : parseFloat(rows[s].lat) = "n:in-range"

SpecCap == InitCap /\ [][Next]_vars

\* ------------------------------------------ route utilities clusterStops
\* Largest number of clusters asked for.
MaxClusters == 3

\* Unordered pairs of stop ids.
StopPairs(ids) == {p \in ids \X ids : p[1] < p[2]}

\* The distance tables of the stops with coordinates: every stop at a place of
\* its own, or all of them at one place.
StopGeometries(ids) == [StopPairs(ids) -> DistVals] \cup {[p \in StopPairs(ids) |-> 0]}

\* Minimum of a non-empty set of numbers (Math.min).
Min(S) == CHOOSE x \in S : \A y \in S : x <= y

\* Math.min(...centroids.map(c => haversineDistance(stop.lat, stop.lng, c.lat, c.lng)))
minDistToCentroid(stop) == Min({haversineDistance(stop, centroids[c]) : c \in 1..Len(centroids)})

\* The scan "for (const stop of validStops) if (minDistToCentroid > maxDist)" from
\* position k on, maxDist starting at -1; farthest is 0 while it is null.
RECURSIVE FarthestFrom(_, _)
FarthestFrom(k, farthest) ==
    IF k > Len(validStops) THEN farthest
    ELSE IF farthest = 0 \/ minDistToCentroid(validStops[k]) > minDistToCentroid(farthest)
         THEN FarthestFrom(k + 1, validStops[k])
         ELSE FarthestFrom(k + 1, farthest)

\* The scan "for (let i = 0; i < centroids.length; i++) if (dist < nearestDist)"
\* from index k on; nearestCluster starts at 0 with nearestDist Infinity (-1).
RECURSIVE NearestClusterFrom(_, _, _)
NearestClusterFrom(stop, k, nearestCluster) ==
    IF k >= Len(centroids) THEN (IF nearestCluster = -1 THEN 0 ELSE nearestCluster)
    ELSE IF \/ nearestCluster = -1
            \/ haversineDistance(stop, At(centroids, k))
                 < haversineDistance(stop, At(centroids, nearestCluster))
         THEN NearestClusterFrom(stop, k + 1, k)
         ELSE NearestClusterFrom(stop, k + 1, nearestCluster)

\* clusters after the assignment loop: cluster c holds, in order, the stops of
\* validStops nearest to centroid c.
AssignedClusters ==
    [c \in 1..numClusters |->
        SelectSeq(validStops, LAMBDA stop : NearestClusterFrom(stop, 0, -1) = c - 1)]

clusterIdle == <<entry, depot, rows, request, geo, outcome, errorMsg, visited, route, current,
                 nnRoute, bestRoute, i, j, improved, iterations, result, mode, first,
                 maxIterations, havVars, apiVars, stopVars, stopNumbers>>

\* clusterStops(stops, numClusters) up to the first centroid: the two early
\* returns, the filter, and validStops[Math.floor(Math.random() * validStops.length)],
\* which is undefined (0) when validStops is empty.
clusterStops ==
    /\ pc = "clusterStops"
    /\ IF Len(request) = 0 \/ numClusters <= 0
       THEN /\ clusters' = <<>>
            /\ pc' = "returned"
            /\ UNCHANGED <<validStops, centroids>>
       ELSE IF Len(request) <= numClusters
       THEN /\ clusters' = [k \in 1..Len(request) |-> <<request[k]>>]
            /\ pc' = "returned"
            /\ UNCHANGED <<validStops, centroids>>
       ELSE /\ validStops' = RU_filter
            /\ IF Len(RU_filter) = 0
               THEN centroids' = <<0>>
               ELSE \E c \in 1..Len(RU_filter) : centroids' = <<RU_filter[c]>>
            /\ pc' = "seeding"
            /\ UNCHANGED clusters
    /\ UNCHANGED <<clusterIdle, run, numClusters, firstClusters>>

\* One iteration of "while (centroids.length < numClusters)".
clusterStops_seed ==
    /\ pc = "seeding"
    /\ Len(centroids) < numClusters
    /\ IF FarthestFrom(1, 0) # 0
       THEN centroids' = Append(centroids, FarthestFrom(1, 0))
       ELSE UNCHANGED centroids
    /\ UNCHANGED <<clusterIdle, run, pc, validStops, numClusters, clusters, firstClusters>>

\* The loop is left: the stops are assigned and the non-empty clusters returned.
clusterStops_assign ==
    /\ pc = "seeding"
    /\ Len(centroids) >= numClusters
    /\ clusters' = SelectSeq(AssignedClusters, LAMBDA c : Len(c) > 0)
    /\ pc' = "returned"
    /\ UNCHANGED <<clusterIdle, run, validStops, numClusters, centroids, firstClusters>>

\* The caller calls clusterStops once more with the same stops and numClusters.
clusterStops_again ==
    /\ pc = "returned" /\ run = 1
    /\ firstClusters' = clusters
    /\ run' = 2
    /\ pc' = "clusterStops"
    /\ validStops' = <<>>
    /\ centroids' = <<>>
    /\ clusters' = <<>>
    /\ UNCHANGED <<clusterIdle, numClusters>>

InitCluster ==
    /\ entry = "route-utils"
    /\ depot = NoRow
    /\ \E n \in 0..MaxStops :
          /\ rows \in [1..n -> StopRowsOf("route-utils")]
          /\ request = [k \in 1..n |-> k]
    /\ geo \in StopGeometries({s \in DOMAIN rows : RU_keeps(rows[s])})
    /\ numClusters \in 0..MaxClusters
    /\ pc = "clusterStops"
    /\ outcome = "pending"
    /\ errorMsg = ""
    /\ validStops = <<>>
    /\ visited = {}
    /\ route = <<>>
    /\ current = 0
    /\ nnRoute = <<>>
    /\ bestRoute = <<>>
    /\ i = -1
    /\ j = -1
    /\ improved = FALSE
    /\ iterations = 0
    /\ result = NoResult
    /\ run = 1
    /\ mode = "first"
    /\ first = NoResult
    /\ maxIterations = 0
    /\ centroids = <<>>
    /\ clusters = <<>>
    /\ firstClusters = <<>>
    /\ HavIdle
    /\ ApiIdle
    /\ StopIdle
    /\ stopNumbers = <<>>

NextCluster == clusterStops \/ clusterStops_seed \/ clusterStops_assign \/ clusterStops_again

SpecCluster == InitCluster /\ [][NextCluster]_vars

\* ------------------------------------------------------------------- claims
\* The stops of a route, as location indices in visiting order, whatever the
\* route's form (closed, open, or stops only).
StopsIn(r) == SelectSeq(r, LAMBDA x : x # 0)

\* Length of the closed tour depot, stops in order, depot.
TourLength(r) == SumLegs(<<0>> \o StopsIn(r) \o <<0>>)

\* The 2-opt function of the entry point has been entered.
InTwoOpt == pc \in {"twoOpt", "pair", "respond"} \/ (pc = "done" /\ outcome = "success")

\* The entry points that run 2-opt after nearest neighbour.
HasTwoOpt == entry \in {"optimize-route", "route-optimizer", "route-utils"}

\* The stops of the request that pass the entry point's coordinate filter.
EntryFilter ==
    CASE entry = "optimize-route" -> OR_filter
      [] entry = "route-optimizer" -> RO_filter
      [] entry = "route-utils" -> RU_filter
      [] entry = "routes-v2" -> V2_filter

\* a holds exactly the elements of b, each once.
IsPermutationOf(a, b) ==
    /\ Len(a) = Len(b)
    /\ \A x \in Range(b) : Cardinality({k \in 1..Len(a) : a[k] = x}) = 1

\* C1: in optimize-route.js, route-optimizer.js and the route utilities, the
\* closed tour (depot, stops in order, depot) of the route 2-opt holds is never
\* longer than the closed tour of the route nearest neighbour gave it: after
\* every reversal it accepts and when it returns, for every distance table.
C1_TwoOptNeverLengthens ==
    (HasTwoOpt /\ InTwoOpt) => TourLength(bestRoute) <= TourLength(nnRoute)

\* A run in which 2-opt accepted a reversal and returned a strictly shorter tour.
C1_Witness ==
    /\ HasTwoOpt /\ pc = "done" /\ outcome = "success"
    /\ bestRoute # nnRoute
    /\ TourLength(bestRoute) < TourLength(nnRoute)

\* C2: the ordered stop list of a successful optimization holds exactly the
\* stops of the request that passed the coordinate filter, each once; so do the
\* route nearest neighbour returns and the route 2-opt holds after any sequence
\* of reversals.
C2_RouteIsPermutationOfKeptStops ==
    /\ InTwoOpt =>
          /\ IsPermutationOf(StopIds(StopsIn(nnRoute)), EntryFilter)
          /\ IsPermutationOf(StopIds(StopsIn(bestRoute)), EntryFilter)
    /\ (pc = "done" /\ outcome = "success") => IsPermutationOf(result.stops, EntryFilter)

\* A success in which the filter dropped a stop of the request and 2-opt
\* reversed a segment of at least two stops.
C2_Witness ==
    /\ HasTwoOpt /\ pc = "done" /\ outcome = "success"
    /\ Len(result.stops) < Len(request)
    /\ Len(result.stops) >= 3
    /\ StopsIn(bestRoute) # StopsIn(nnRoute)

\* C3: a second call with the same depot and the stops in the order the first
\* call returned succeeds with the same visiting order and the same total
\* distance as the first call.
C3_ReoptimizationIsFixedPoint ==
    (run = 2 /\ mode = "reordered" /\ pc = "done") =>
        /\ outcome = "success"
        /\ result.stops = first.stops
        /\ result.optimized = first.optimized

PlacesInClusters(s) ==
    Cardinality({p \in (1..Len(clusters)) \X (1..MaxStops) :
                    p[2] <= Len(clusters[p[1]]) /\ clusters[p[1]][p[2]] = s})

\* C5: for numClusters >= 1, clusterStops returns at most numClusters clusters
\* and every stop of the list, with usable coordinates or not, is in exactly one
\* of them.
C5_ClustersPartitionStops ==
    (pc = "returned" /\ numClusters >= 1) =>
        /\ Len(clusters) <= numClusters
        /\ \A s \in Range(request) : PlacesInClusters(s) = 1

\* C6: two calls of clusterStops with the same stops and the same numClusters
\* return the same clusters in the same order.
C6_ClusterStopsDeterministic ==
    (pc = "returned" /\ run = 2) => clusters = firstClusters

\* C7: when no stop of the request passes the coordinate filter, the entry
\* point answers with an error: it never goes on to build a route and never
\* returns a success, with an empty route or any other.
C7_NoValidStopIsAnError ==
    Len(EntryFilter) = 0 =>
        /\ pc \in {"request", "done"}
        /\ outcome # "success"
        /\ result = NoResult
        /\ pc = "done" => outcome = "error"

\* A request with stops and an accepted depot, none of whose stops passed the
\* filter, answered by the error raised after the filter.
C7_Witness ==
    /\ pc = "done" /\ outcome = "error"
    /\ Len(request) > 0
    /\ Len(EntryFilter) = 0
    /\ errorMsg \in {"No stops with valid GPS coordinates", "No stops have GPS coordinates",
                     "No stops have valid GPS coordinates",
                     "Not enough customers with valid coordinates"}

\* Coordinates that are valid and that every entry point's checks keep: in
\* range and not zero.
PlainlyValid(loc) == parseFloat(loc.lat) = "n:in-range" /\ parseFloat(loc.lng) = "n:in-range"

\* The stops of the request with plainly valid coordinates.
PlainlyValidStops == SelectSeq(request, LAMBDA s : PlainlyValid(rows[s]))

\* C8: with a valid depot and exactly one valid stop (any other stop of the
\* request has no coordinates), every entry point, routes-v2 optimizeStops
\* included, succeeds with that stop alone as the route and zero savings.
C8_SingleStopSucceeds ==
    (/\ pc = "done"
     /\ PlainlyValid(depot)
     /\ Len(PlainlyValidStops) = 1
     /\ \A s \in Range(request) : PlainlyValid(rows[s]) \/ rows[s].lat = "null") =>
        /\ outcome = "success"
        /\ result.stops = PlainlyValidStops
        /\ result.saved = 0

\* C9: when every stop is at the depot's coordinates, so that every distance is
\* 0, the accepted request succeeds with total distance 0, fuel cost 0 and a
\* savings percentage that is a number and is 0.
C9_AllZeroDistances ==
    (/\ pc = "done"
     /\ Len(validStops) > 0
     /\ \A p \in DOMAIN geo : geo[p] = 0) =>
        /\ outcome = "success"
        /\ result.optimized = 0
        /\ result.fuelCost = 0
        /\ result.percentDefined
        /\ result.percent = 0

\* The error messages of the depot checks.
DepotErrors ==
    {"Distribution center not found", "Distribution center is missing GPS coordinates",
     "Route not found", "Distribution center does not have GPS coordinates",
     "Distribution center location required",
     "Distribution center not found or missing coordinates"}

\* C10: a depot that is missing or has a missing, non-finite or out-of-range
\* coordinate is answered with an error and no route; a depot with finite
\* in-range coordinates, latitude 0 included, is not refused.
C10_DepotValidated ==
    pc = "done" =>
        /\ (depot = NoRow \/ ~CoordinateValid(depot)) =>
              (outcome = "error" /\ result = NoResult)
        /\ (depot # NoRow /\ CoordinateValid(depot)) => errorMsg \notin DepotErrors

ReportDivisor == IF entry = "route-utils" THEN 100 ELSE 10

\* C12: in every entry point that improves its route, the 'original' distance of
\* the response is the length of the route nearest neighbour built, and the
\* 'optimized' distance the length of the route 2-opt made of it.
C12_OriginalIsNearestNeighbourRoute ==
    (HasTwoOpt /\ pc = "done" /\ outcome = "success") =>
        /\ result.original = JSRound(TourLength(nnRoute), ReportDivisor)
        /\ result.optimized = JSRound(TourLength(bestRoute), ReportDivisor)

\* ------------------------------------------------- haversineDistance (formula)
\* The formula is followed operation by operation on IEEE doubles.  A double is
\* a sign (-1, 0 for zero, 1) and a magnitude, the term of the operations that
\* produced it.  Only what holds of the operations themselves is used: x - y is
\* the negation of y - x; multiplying or dividing by a constant, and Math.sin,
\* keep the sign and zero; Math.cos does not see the sign; a product takes the
\* product of the signs whatever the order of its two factors, and is zero when
\* a factor is; products are not regrouped.
Degrees == {-1, 0, 2}

\* The points <<lat, lon>> the distance is taken between.
Points == Degrees \X Degrees

\* R of the haversineDistance of file f, in tenths of a mile.
EarthRadiusTenths(f) == IF f = "optimize-route" THEN 39588 ELSE 39590

FZero == [s |-> 0, m |-> <<"zero", {}>>]

\* The double of a small integer.
FNum(n) ==
    IF n = 0 THEN FZero
    ELSE [s |-> IF n < 0 THEN -1 ELSE 1, m |-> <<"num", {IF n < 0 THEN -n ELSE n}>>]

\* A double as one term, sign included.
Signed(x) == IF x.s = -1 THEN <<"neg", {x.m}>> ELSE x.m

\* An operation that keeps the sign and zero, applied to x.
FOdd(op, x) == IF x.s = 0 THEN FZero ELSE [s |-> x.s, m |-> <<op, {x.m}>>]

\* x * y
FMul(x, y) ==
    IF x.s = 0 \/ y.s = 0 THEN FZero
    ELSE [s |-> x.s * y.s, m |-> <<"mul", {x.m, y.m}>>]

\* x + y for x, y >= 0
FAdd(x, y) ==
    IF x.s = 0 THEN y
    ELSE IF y.s = 0 THEN x
    ELSE [s |-> 1, m |-> <<"add", {<<"left", {Signed(x)}>>, <<"right", {Signed(y)}>>}>>]

\* toRad(deg): deg * (Math.PI / 180)
toRad(deg) == FOdd("toRad", deg)

\* Math.sin(x / 2)
SinHalf(x) == FOdd("sin", FOdd("half", x))

\* Math.cos(x)
FCos(x) == [s |-> 1, m |-> <<"cos", {x.m}>>]

\* Math.sqrt(x) for x >= 0
FSqrt(x) == IF x.s = 0 THEN FZero ELSE [s |-> 1, m |-> <<"sqrt", {Signed(x)}>>]

\* Math.sqrt(1 - a)
SqrtOneMinus(a) ==
    IF a.s = 0 THEN [s |-> 1, m |-> <<"one", {}>>]
    ELSE [s |-> 1, m |-> <<"sqrt1minus", {Signed(a)}>>]

\* Math.atan2(y, x) for y >= 0 and x > 0: 0 when y is 0.
FAtan2(y, x) ==
    IF y.s = 0 THEN FZero
    ELSE [s |-> 1, m |-> <<"atan2", {<<"left", {Signed(y)}>>, <<"right", {Signed(x)}>>}>>]

\* The term a of the formula with the cosine factor cosines.
HaversineA(dLat, dLon, cosines) ==
    FAdd(FMul(SinHalf(dLat), SinHalf(dLat)),
         FMul(FMul(cosines, SinHalf(dLon)), SinHalf(dLon)))

\* A faulty variant of the cosine factor: the cosine of the first latitude twice.
CosineFactor_firstOnly(lat1, lat2) == FMul(FCos(toRad(FNum(lat1))), FCos(toRad(FNum(lat1))))

\* Math.cos(toRad(lat1)) * Math.cos(toRad(lat2))
CosineFactor(lat1, lat2) == FMul(FCos(toRad(FNum(lat1))), FCos(toRad(FNum(lat2))))

\* haversineDistance(lat1, lon1, lat2, lon2) of file f.
haversineFormula(f, lat1, lon1, lat2, lon2) ==
    LET dLat == toRad(FNum(lat2 - lat1))
        dLon == toRad(FNum(lon2 - lon1))
        a == HaversineA(dLat, dLon, CosineFactor(lat1, lat2))
        c == FOdd("twice", FAtan2(FSqrt(a), SqrtOneMinus(a)))
    IN  FMul(FNum(EarthRadiusTenths(f)), c)

\* One call of haversineDistance in each direction and one on a point and itself.
haversineCalls ==
    /\ distAB = NoDistance
    /\ pc = "haversine"
    /\ distAB' = haversineFormula(entry, pointA[1], pointA[2], pointB[1], pointB[2])
    /\ distBA' = haversineFormula(entry, pointB[1], pointB[2], pointA[1], pointA[2])
    /\ distAA' = haversineFormula(entry, pointA[1], pointA[2], pointA[1], pointA[2])
    /\ UNCHANGED <<optVars, clusterVars, apiVars, stopVars, stopNumbers, pointA, pointB>>

\* Another pair of points.
haversineAgain ==
    /\ distAB # NoDistance
    /\ pc = "haversine"
    /\ \E a \in Points, b \in Points :
        /\ pointA' = a
        /\ pointB' = b
    /\ distAB' = NoDistance
    /\ distBA' = NoDistance
    /\ distAA' = NoDistance
    /\ UNCHANGED <<optVars, clusterVars, apiVars, stopVars, stopNumbers>>

InitHaversine ==
    /\ entry \in Entries
    /\ depot = NoRow
    /\ rows = <<>>
    /\ request = <<>>
    /\ geo = [p \in {} |-> 0]
    /\ pc = "haversine"
    /\ outcome = "pending"
    /\ errorMsg = ""
    /\ validStops = <<>>
    /\ visited = {}
    /\ route = <<>>
    /\ current = 0
    /\ nnRoute = <<>>
    /\ bestRoute = <<>>
    /\ i = -1
    /\ j = -1
    /\ improved = FALSE
    /\ iterations = 0
    /\ result = NoResult
    /\ run = 1
    /\ mode = "first"
    /\ first = NoResult
    /\ maxIterations = 0
    /\ numClusters = 0
    /\ centroids = <<>>
    /\ clusters = <<>>
    /\ firstClusters = <<>>
    /\ pointA \in Points
    /\ pointB \in Points
    /\ distAB = NoDistance
    /\ distBA = NoDistance
    /\ distAA = NoDistance
    /\ ApiIdle
    /\ StopIdle
    /\ stopNumbers = <<>>

NextHaversine == haversineCalls \/ haversineAgain

SpecHaversine == InitHaversine /\ [][NextHaversine]_vars

\* ------------------------------------------------------ handlers and tenants
\* What a handler does before it dispatches, in routes-v2.js and
\* optimize-route.js: the status it returns early, or 0.  resolveTenant and
\* requireAuth are called, not defined, in these files: whether the tenant
\* resolves and whether the token is accepted are inputs, and the status of an
\* authentication error is written 401.
handler(resolved, authOk, tenant, token) ==
    IF ~resolved THEN 404
    ELSE IF ~authOk THEN 401
    ELSE IF token # tenant THEN 403
    ELSE 0

\* The same in route-optimizer.js.
RO_handler(resolved, authOk, tenant, token) ==
    IF ~resolved THEN 404
    ELSE IF ~authOk THEN 401
    ELSE 0

\* One row of table, of company, read or modified.
Row(table, company, how) == [table |-> table, company_id |-> company, how |-> how]

\* The response and what the request touched.
Serve(endpoint, tenant, token, status, touched) ==
    /\ http' = [endpoint |-> endpoint, tenant |-> tenant, token |-> token, status |-> status]
    /\ accessed' = touched

apiIdle == <<optVars, clusterVars, havVars, stopVars, stopNumbers>>

\* The run statuses and what a request body may give as status.
RunStatuses == {"scheduled", "in_progress", "completed"}
BodyStatuses == RunStatuses \cup {"undefined"}

\* POST /runs from a template or ad hoc: the run is inserted as 'scheduled' for
\* the company of the tenant.
V2_createRun ==
    /\ pc = "api"
    /\ \E r \in 1..MaxRuns :
        /\ routeRuns[r] = NoRun
        /\ \A q \in 1..(r - 1) : routeRuns[q] # NoRun
        /\ \E resolved, authOk, allowed, dcKnown \in BOOLEAN,
              tenant, token \in Companies, template_id \in {0} \cup RowIds :
            LET early == handler(resolved, authOk, tenant, token)
                found == template_id # 0 => OwnerOf(template_id) = tenant
                read == IF template_id # 0 /\ found
                        THEN {Row("route_templates", tenant, "read")} ELSE {}
            IN  IF early # 0
                THEN Serve("POST /runs", tenant, token, early, {}) /\ UNCHANGED routeRuns
                ELSE IF ~allowed
                THEN Serve("POST /runs", tenant, token, 403, {}) /\ UNCHANGED routeRuns
                ELSE IF ~found
                THEN Serve("POST /runs", tenant, token, 404, {}) /\ UNCHANGED routeRuns
                ELSE IF ~dcKnown
                THEN Serve("POST /runs", tenant, token, 400, read) /\ UNCHANGED routeRuns
                ELSE /\ routeRuns' = [routeRuns EXCEPT
                                         ![r] = [company_id |-> tenant, status |-> "scheduled"]]
                     /\ Serve("POST /runs", tenant, token, 201,
                              read \cup {Row("route_runs", tenant, "write")})
    /\ UNCHANGED <<apiIdle, customers>>

\* PUT /runs/:id: status = body.status when the body has one, on the run of
\* that id and of the company of the tenant.
V2_updateRun ==
    /\ pc = "api"
    /\ \E resolved, authOk \in BOOLEAN, tenant, token \in Companies,
          id \in 1..MaxRuns, status \in BodyStatuses :
        LET early == handler(resolved, authOk, tenant, token)
        IN  IF early # 0
            THEN Serve("PUT /runs/:id", tenant, token, early, {}) /\ UNCHANGED routeRuns
            ELSE IF routeRuns[id].company_id # tenant
            THEN Serve("PUT /runs/:id", tenant, token, 404, {}) /\ UNCHANGED routeRuns
            ELSE /\ routeRuns' = [routeRuns EXCEPT
                                     ![id].status = IF status = "undefined" THEN @ ELSE status]
                 /\ Serve("PUT /runs/:id", tenant, token, 200,
                          {Row("route_runs", tenant, "write")})
    /\ UNCHANGED <<apiIdle, customers>>

\* GET and PUT /route-optimizer/settings: the settings of the company of the
\* tenant are read, and written by PUT.
RO_settings ==
    /\ pc = "api"
    /\ \E resolved, authOk \in BOOLEAN, tenant, token \in Companies,
          method \in {"GET", "PUT"} :
        LET early == RO_handler(resolved, authOk, tenant, token)
            endpoint == IF method = "GET" THEN "GET /route-optimizer/settings"
                        ELSE "PUT /route-optimizer/settings"
        IN  IF early # 0
            THEN Serve(endpoint, tenant, token, early, {})
            ELSE Serve(endpoint, tenant, token, 200,
                       {Row("companies", tenant, "read")}
                       \cup (IF method = "PUT" THEN {Row("companies", tenant, "write")} ELSE {}))
    /\ UNCHANGED <<apiIdle, routeRuns, customers>>

\* POST /optimize-route/estimate: getRouteEstimate(companyId, event) up to the
\* truck query; dc_id and truck_id are 0 when the body has none.
OR_getRouteEstimate ==
    /\ pc = "api"
    /\ \E resolved, authOk \in BOOLEAN, tenant, token \in Companies,
          dc_id \in {0} \cup RowIds, customer_ids \in SUBSET RowIds,
          truck_id \in {0} \cup RowIds :
        LET early == handler(resolved, authOk, tenant, token)
            endpoint == "POST /optimize-route/estimate"
            dcRows == IF OwnerOf(dc_id) = tenant
                      THEN {Row("distribution_centers", tenant, "read")} ELSE {}
            customerRows == {Row("customers", OwnerOf(c), "read") :
                                c \in {k \in customer_ids : OwnerOf(k) = tenant}}
            truckRows == IF truck_id # 0
                         THEN {Row("trucks", OwnerOf(truck_id), "read")} ELSE {}
        IN  IF early # 0
            THEN Serve(endpoint, tenant, token, early, {})
            ELSE IF dc_id = 0 \/ customer_ids = {}
            THEN Serve(endpoint, tenant, token, 400, {})
            ELSE IF dcRows = {}
            THEN Serve(endpoint, tenant, token, 400, {})
            ELSE IF customerRows = {}
            THEN Serve(endpoint, tenant, token, 400, dcRows)
            ELSE Serve(endpoint, tenant, token, 200, dcRows \cup customerRows \cup truckRows)
    /\ UNCHANGED <<apiIdle, routeRuns, customers>>

\* POST /templates/:id/stops: the stops of the template are replaced and every
\* customer of the new stops is set to reference the template.
V2_setTemplateStops ==
    /\ pc = "api"
    /\ \E resolved, authOk, allowed \in BOOLEAN, tenant, token \in Companies,
          templateId \in RowIds, customerIds \in SUBSET RowIds :
        LET early == handler(resolved, authOk, tenant, token)
            endpoint == "POST /templates/:id/stops"
            template == {Row("route_templates", tenant, "read")}
        IN  IF early # 0
            THEN Serve(endpoint, tenant, token, early, {}) /\ UNCHANGED customers
            ELSE IF ~allowed
            THEN Serve(endpoint, tenant, token, 403, {}) /\ UNCHANGED customers
            ELSE IF OwnerOf(templateId) # tenant
            THEN Serve(endpoint, tenant, token, 404, {}) /\ UNCHANGED customers
            ELSE /\ customers' = [c \in RowIds |->
                        IF c \in customerIds
                        THEN [customers[c] EXCEPT !.route_template_id = templateId]
                        ELSE customers[c]]
                 /\ Serve(endpoint, tenant, token, 200,
                          template
                          \cup (IF customerIds # {}
                                THEN {Row("route_templates", tenant, "write")} ELSE {})
                          \cup {Row("customers", customers[c].company_id, "write") :
                                   c \in customerIds})
    /\ UNCHANGED <<apiIdle, routeRuns>>

InitApi ==
    /\ entry = "routes-v2"
    /\ depot = NoRow
    /\ rows = <<>>
    /\ request = <<>>
    /\ geo = [p \in {} |-> 0]
    /\ pc = "api"
    /\ outcome = "pending"
    /\ errorMsg = ""
    /\ validStops = <<>>
    /\ visited = {}
    /\ route = <<>>
    /\ current = 0
    /\ nnRoute = <<>>
    /\ bestRoute = <<>>
    /\ i = -1
    /\ j = -1
    /\ improved = FALSE
    /\ iterations = 0
    /\ result = NoResult
    /\ run = 1
    /\ mode = "first"
    /\ first = NoResult
    /\ maxIterations = 0
    /\ numClusters = 0
    /\ centroids = <<>>
    /\ clusters = <<>>
    /\ firstClusters = <<>>
    /\ HavIdle
    /\ ApiIdle
    /\ StopIdle
    /\ stopNumbers = <<>>

NextApi ==
    \/ V2_createRun
    \/ V2_updateRun
    \/ RO_settings
    \/ OR_getRouteEstimate
    \/ V2_setTemplateStops

SpecApi == InitApi /\ [][NextApi]_vars

\* C13: in each of the four files haversineDistance returns the same double for
\* (A, B) and for (B, A), and returns zero for (A, A), for all points A and B.
C13_HaversineSymmetricAndZeroOnSelf ==
    (pc = "haversine" /\ distAB # NoDistance) =>
        /\ distAB = distBA
        /\ distAA = FZero

C13_Witness ==
    /\ pc = "haversine"
    /\ distAB # NoDistance
    /\ pointA[1] # pointB[1]
    /\ pointA[2] # pointB[2]
    /\ pointA[1] # -pointB[1]
    /\ distAB.s = 1
    /\ distAB = distBA
    /\ distAA = FZero

\* The place of a run status in scheduled -> in_progress -> completed.
StatusRank(status) ==
    CASE status = "scheduled" -> 1
      [] status = "in_progress" -> 2
      [] status = "completed" -> 3
      [] OTHER -> 0

\* C14: no PUT /runs/:id request moves the status of a run backwards along
\* scheduled -> in_progress -> completed.
C14_RunStatusOnlyForward ==
    [][\A r \in 1..MaxRuns :
          routeRuns[r] # NoRun => StatusRank(routeRuns'[r].status) >= StatusRank(routeRuns[r].status)]_vars

\* C15: a request carrying the token of one company reads or modifies only
\* rows of that company, and is rejected when the company of its token is not
\* the tenant the request resolves to.
C15_TenantIsolation ==
    pc = "api" =>
        /\ \A row \in accessed : row.company_id = http.token
        /\ http.token # http.tenant => http.status >= 400

\* The positions of route filled by a selection: all of them, but for the
\* start index the route begins with in optimize-route.js and route-optimizer.js.
SelectedPositions ==
    IF entry \in {"optimize-route", "route-optimizer"} THEN 2..Len(route) ELSE 1..Len(route)

\* The location the selection at position p was made from, and the locations
\* unvisited then.
SelectedFrom(p) == IF p = 1 THEN 0 ELSE route[p - 1]
UnvisitedAt(p) == (1..(NumLocations - 1)) \ {route[q] : q \in 1..(p - 1)}

\* C16: every location a nearest-neighbour step appended was, among the
\* locations unvisited at that step, at the least matrix distance from the
\* current location, and of the lowest index among those at that distance
\* (optimize-route.js, the route utilities, routes-v2.js).
C16_NearestNeighbourPicksLowestNearest ==
    (entry \in {"optimize-route", "route-utils", "routes-v2"} /\ pc \in {"nn", "twoOpt", "pair", "respond", "done"}) =>
        \A p \in SelectedPositions : \A m \in UnvisitedAt(p) :
            \/ distanceMatrix(SelectedFrom(p), route[p]) < distanceMatrix(SelectedFrom(p), m)
            \/ /\ distanceMatrix(SelectedFrom(p), route[p]) = distanceMatrix(SelectedFrom(p), m)
               /\ route[p] <= m

C16_Witness ==
    /\ entry \in {"optimize-route", "route-utils", "routes-v2"}
    /\ pc = "nn"
    /\ \E p \in SelectedPositions : \E m \in UnvisitedAt(p) :
          /\ m # route[p]
          /\ distanceMatrix(SelectedFrom(p), route[p]) = distanceMatrix(SelectedFrom(p), m)
          /\ \E far \in UnvisitedAt(p) :
                distanceMatrix(SelectedFrom(p), route[p]) < distanceMatrix(SelectedFrom(p), far)

\* No index occurs twice in r.
NoRepeat(r) == \A p, q \in 1..Len(r) : r[p] = r[q] => p = q

\* The route nearestNeighbor returns: the depot, every stop index once, and
\* the closing depot in optimize-route.js.
CompleteRoute(r) ==
    LET open == IF entry = "optimize-route" THEN SubSeq(r, 1, Len(r) - 1) ELSE r
    IN  /\ Len(open) = NumLocations
        /\ open[1] = 0
        /\ NoRepeat(open)
        /\ Range(open) = 0..(NumLocations - 1)
        /\ entry = "optimize-route" => r[Len(r)] = 0

\* C17: in optimize-route.js and route-optimizer.js, while nearestNeighbor runs
\* the visited set is the set of indices of the partial route, which begins at
\* index 0 and repeats no index; every iteration before the last selects a
\* location, so the loop ends after n - 1 selections; and the route returned
\* is the depot followed by every stop index once (and the closing depot in
\* optimize-route.js).
C17_NearestNeighbourCompletes ==
    entry \in {"optimize-route", "route-optimizer"} =>
        /\ pc = "nn" =>
              /\ visited = Range(route)
              /\ NoRepeat(route)
              /\ route[1] = 0
              /\ Len(route) <= NumLocations
              /\ Cardinality(visited) < NumLocations => NearestFrom(0, -1) \in (1..(NumLocations - 1)) \ visited
        /\ InTwoOpt => (Len(route) = NumLocations /\ CompleteRoute(nnRoute))

C17_Witness ==
    /\ entry \in {"optimize-route", "route-optimizer"}
    /\ pc = "twoOpt"
    /\ iterations = 0
    /\ NumLocations = MaxStops + 1
    /\ Len(route) = NumLocations
    /\ CompleteRoute(nnRoute)

\* The pairs of stop positions i < j of a closed route r (0-based, the depot
\* at positions 0 and Len(r) - 1).
StopPositionPairs(r) == {p \in (1..(Len(r) - 2)) \X (1..(Len(r) - 2)) : p[1] < p[2]}

\* C18: in optimize-route.js, when twoOpt has returned after fewer passes than
\* its cap, no reversal of the stops between two stop positions i < j of the
\* returned route has a delta below -0.001.
C18_TwoOptReturnsLocalOptimum ==
    (entry = "optimize-route" /\ pc \in {"respond", "done"} /\ outcome # "error"
        /\ Len(bestRoute) > 0 /\ iterations < maxIterations) =>
        \A p \in StopPositionPairs(bestRoute) :
            ~(calculateTwoOptDelta(bestRoute, p[1], p[2]) < -OR_epsilon)

C18_Witness ==
    /\ entry = "optimize-route"
    /\ pc = "respond"
    /\ iterations < maxIterations
    /\ bestRoute # nnRoute
    /\ Len(bestRoute) = MaxStops + 2
    /\ \A p \in StopPositionPairs(bestRoute) :
          ~(calculateTwoOptDelta(bestRoute, p[1], p[2]) < -OR_epsilon)

\* The pairs of stop positions i < j of an open route r (0-based, the depot at
\* position 0 only, the last stop at Len(r) - 1).
OpenStopPositionPairs(r) == {p \in (1..(Len(r) - 1)) \X (1..(Len(r) - 1)) : p[1] < p[2]}

\* C19: in route-optimizer.js, when twoOptImprove has returned after fewer
\* passes than its cap, reversing the stops between any two stop positions
\* i < j of the returned route, the last stop included, does not lower the
\* length of the closed tour by more than 0.001.
C19_OpenRouteLocalOptimum ==
    (entry = "route-optimizer" /\ pc \in {"respond", "done"} /\ outcome # "error"
        /\ Len(bestRoute) > 0 /\ iterations < maxIterations) =>
        \A p \in OpenStopPositionPairs(bestRoute) :
            ~(TourLength(twoOptSwap(bestRoute, p[1], p[2])) < TourLength(bestRoute) - RO_epsilon)

\* The contiguous blocks of two or more stops of a route r of stops: first and
\* last position (0-based).
StopBlocks(r) == {p \in (0..(Len(r) - 1)) \X (0..(Len(r) - 1)) : p[1] < p[2]}

\* C20: in the route utilities, when twoOptImprove has returned after fewer
\* passes than its cap, reversing any contiguous block of two or more stops of
\* the returned route, the first stop included, does not lower
\* calculateRouteDistance by more than 0.01.
C20_UtilitiesLocalOptimum ==
    (entry = "route-utils" /\ pc \in {"respond", "done"} /\ outcome # "error"
        /\ iterations < maxIterations) =>
        \A p \in StopBlocks(bestRoute) :
            ~(calculateRouteDistance(RU_newRoute(bestRoute, p[1] - 1, p[2]))
                < calculateRouteDistance(bestRoute) - RU_epsilon)

\* C21: in optimize-route.js and route-optimizer.js, in every state of the
\* 2-opt loop and on its return, the route held has the depot index at
\* position 0 (and at the last position of the closed route of
\* optimize-route.js) and nowhere else, and every stop index exactly once.
C21_TwoOptKeepsDepotAndStops ==
    (entry \in {"optimize-route", "route-optimizer"} /\ InTwoOpt) =>
        /\ Len(bestRoute) = NumLocations + (IF entry = "optimize-route" THEN 1 ELSE 0)
        /\ At(bestRoute, 0) = 0
        /\ entry = "optimize-route" => At(bestRoute, Len(bestRoute) - 1) = 0
        /\ \A k \in 1..(NumLocations - 1) : At(bestRoute, k) # 0
        /\ \A x \in 1..(NumLocations - 1) :
              Cardinality({k \in 1..Len(bestRoute) : bestRoute[k] = x}) = 1

C21_Witness ==
    /\ entry \in {"optimize-route", "route-optimizer"}
    /\ pc = "pair"
    /\ iterations >= 2
    /\ bestRoute # nnRoute
    /\ At(bestRoute, 0) = 0
    /\ Range(bestRoute) = 0..(NumLocations - 1)

\* C22: in optimize-route.js and route-optimizer.js the delta computed at a
\* pair (i, j) is the length of the closed tour after reversing positions
\* i..j minus its length before, so that a reversal is accepted exactly when
\* it lowers the closed tour by more than 0.001.
C22_DeltaIsTourChange ==
    (entry \in {"optimize-route", "route-optimizer"} /\ pc = "pair") =>
        IF entry = "optimize-route"
        THEN /\ calculateTwoOptDelta(bestRoute, i, j)
                  = TourLength(twoOptSwap(bestRoute, i, j)) - TourLength(bestRoute)
             /\ OR_accepts(bestRoute, i, j)
                  => TourLength(twoOptSwap(bestRoute, i, j)) < TourLength(bestRoute) - OR_epsilon
        ELSE /\ RO_newDist(bestRoute, i, j) - RO_currentDist(bestRoute, i, j)
                  = TourLength(RO_reverse(bestRoute, i, j)) - TourLength(bestRoute)
             /\ RO_accepts(bestRoute, i, j)
                  => TourLength(RO_reverse(bestRoute, i, j)) < TourLength(bestRoute) - RO_epsilon

C22_Witness ==
    /\ entry \in {"optimize-route", "route-optimizer"}
    /\ pc = "pair"
    /\ j > i + 1
    /\ IF entry = "optimize-route"
       THEN /\ OR_accepts(bestRoute, i, j)
            /\ TourLength(twoOptSwap(bestRoute, i, j)) < TourLength(bestRoute) - OR_epsilon
       ELSE /\ RO_accepts(bestRoute, i, j)
            /\ TourLength(RO_reverse(bestRoute, i, j)) < TourLength(bestRoute) - RO_epsilon

\* ------------------------------------------------------- the loops run on
\* Requests with plain coordinates, served with the default cap or with a cap
\* of 1..MaxCap passes; the handler keeps executing until it has responded.
InitLive ==
    /\ InitRequest
    /\ maxIterations \in (1..MaxCap) \cup {DefaultMaxIterations(entry)}
    /\ stopNumbers = <<>>
    /\ parseFloat(depot.lat) = "n:in-range"
    /\ \A s \in DOMAIN rows : parseFloat(rows[s].lat) = "n:in-range"

SpecLive == InitLive /\ [][Next]_vars /\ WF_vars(Next)

\* C23: in optimize-route.js and the route utilities the 2-opt function, once
\* entered, returns; it never runs more than maxIterations passes; and with
\* the default cap it returns before the cap is reached, that is after a pass
\* that accepted no reversal.
C23_TwoOptTerminates ==
    /\ []((HasTwoOpt /\ InTwoOpt) => iterations <= maxIterations)
    /\ []((entry \in {"optimize-route", "route-utils"} /\ pc = "respond"
             /\ maxIterations = DefaultMaxIterations(entry)) => iterations < maxIterations)
    /\ (entry \in {"optimize-route", "route-utils"} /\ pc = "twoOpt") ~> (pc = "respond")

C23_Witness ==
    /\ entry \in {"optimize-route", "route-utils"}
    /\ pc = "respond"
    /\ maxIterations = DefaultMaxIterations(entry)
    /\ iterations = 2
    /\ bestRoute # nnRoute
    /\ ~improved

\* C24: in optimize-route.js the miles saved of the response are the
\* unrounded total of the nearest-neighbour route minus the unrounded total of
\* the optimized route, rounded once to hundredths of a mile.
C24_SavingsRoundedOnce ==
    (entry = "optimize-route" /\ pc = "done" /\ outcome = "success") =>
        result.saved = JSRound(SumLegs(nnRoute) - SumLegs(bestRoute), 10)

\* C25: in optimize-route.js, route-optimizer.js and the route utilities, the
\* stops of a successful response are exactly the stops of the request whose
\* coordinates are valid, a latitude or longitude of 0 included.
C25_FilterKeepsExactlyValidStops ==
    (entry \in {"optimize-route", "route-optimizer", "route-utils"}
        /\ pc = "done" /\ outcome = "success") =>
        Range(result.stops) = {s \in Range(request) : CoordinateValid(rows[s])}

\* ------------------------------------------- PUT /runs/:id/stops/:stopId
\* Handlers of stop updates of one run, each past the handler's tenant and
\* run checks.  Every "await query(...)" is one statement of the database and
\* a point where another handler may run.
RECURSIVE SumOver(_, _)
SumOver(f, S) ==
    IF S = {} THEN 0
    ELSE LET k == CHOOSE x \in S : TRUE IN f[k] + SumOver(f, S \ {k})

\* The SELECT of updateRunStats over the stops of the run.
statsResult ==
    [stops_completed |->
        Cardinality({k \in DOMAIN runStops : runStops[k].status \in {"completed", "skipped"}}),
     total_gallons_delivered |->
        SumOver([k \in DOMAIN runStops |-> runStops[k].gallons_delivered], DOMAIN runStops),
     total_revenue |->
        SumOver([k \in DOMAIN runStops |-> runStops[k].delivery_total], DOMAIN runStops)]

stopIdle == <<optVars, clusterVars, havVars, apiVars, stopNumbers>>

\* UPDATE route_run_stops SET status = body.status || 'completed',
\* gallons_delivered = body.gallons_delivered || 0, delivery_total =
\* body.delivery_total || 0 ... WHERE id = stopId AND run_id = runId; the
\* handler returns 404 when no row is updated.  stopId 0 is no stop of the run.
updateStop(h) ==
    /\ pc = "stops"
    /\ handlers[h].pc = "idle"
    /\ \E stopId \in 0..MaxRunStops, status \in {"completed", "skipped"},
          gallons_delivered \in {0, 5}, delivery_total \in {0, 20} :
        IF stopId = 0
        THEN /\ handlers' = [handlers EXCEPT ![h].pc = "done"]
             /\ UNCHANGED runStops
        ELSE /\ runStops' = [runStops EXCEPT ![stopId] =
                                [status |-> status, gallons_delivered |-> gallons_delivered,
                                 delivery_total |-> delivery_total]]
             /\ handlers' = [handlers EXCEPT ![h].pc = "stats"]
    /\ UNCHANGED <<stopIdle, runStats>>

\* updateRunStats(runId): the SELECT of the aggregates.
updateRunStats_select(h) ==
    /\ pc = "stops"
    /\ handlers[h].pc = "stats"
    /\ handlers' = [handlers EXCEPT ![h] = [pc |-> "write", stats |-> statsResult]]
    /\ UNCHANGED <<stopIdle, runStops, runStats>>

\* updateRunStats(runId): the UPDATE of route_runs with the values selected,
\* then return success(stop).
updateRunStats_update(h) ==
    /\ pc = "stops"
    /\ handlers[h].pc = "write"
    /\ runStats' = handlers[h].stats
    /\ handlers' = [handlers EXCEPT ![h].pc = "done"]
    /\ UNCHANGED <<stopIdle, runStops>>

\* The handler has responded; the next request is served.
nextStopRequest(h) ==
    /\ pc = "stops"
    /\ handlers[h].pc = "done"
    /\ handlers' = [handlers EXCEPT ![h] = [pc |-> "idle", stats |-> NoStats]]
    /\ UNCHANGED <<stopIdle, runStops, runStats>>

InitStops ==
    /\ entry = "routes-v2"
    /\ depot = NoRow
    /\ rows = <<>>
    /\ request = <<>>
    /\ geo = [p \in {} |-> 0]
    /\ pc = "stops"
    /\ outcome = "pending"
    /\ errorMsg = ""
    /\ validStops = <<>>
    /\ visited = {}
    /\ route = <<>>
    /\ current = 0
    /\ nnRoute = <<>>
    /\ bestRoute = <<>>
    /\ i = -1
    /\ j = -1
    /\ improved = FALSE
    /\ iterations = 0
    /\ result = NoResult
    /\ run = 1
    /\ mode = "first"
    /\ first = NoResult
    /\ maxIterations = 0
    /\ numClusters = 0
    /\ centroids = <<>>
    /\ clusters = <<>>
    /\ firstClusters = <<>>
    /\ HavIdle
    /\ ApiIdle
    /\ StopIdle
    /\ stopNumbers = <<>>

NextStops ==
    \E h \in 1..MaxHandlers :
        \/ updateStop(h)
        \/ updateRunStats_select(h)
        \/ updateRunStats_update(h)
        \/ nextStopRequest(h)

SpecStops == InitStops /\ [][NextStops]_vars

\* C26: when no stop update is in progress, the run's stored stops_completed,
\* total_gallons_delivered and total_revenue are the count of completed or
\* skipped stops and the sums of gallons_delivered and delivery_total over the
\* stops of the run.
C26_RunStatsMatchStops ==
    (pc = "stops" /\ \A h \in 1..MaxHandlers : handlers[h].pc \in {"idle", "done"}) =>
        runStats = statsResult

\* C27: in optimize-route.js, route-optimizer.js and the route utilities, the
\* distance saved of a successful response is not negative and the optimized
\* distance is not above the distance reported as the original.
C27_SavingsNotNegative ==
    (HasTwoOpt /\ pc = "done" /\ outcome = "success") =>
        /\ result.saved >= 0
        /\ result.optimized <= result.original

\* ------------------------------------------ optimizations applied to a route
\* The stops of a stored route arrive ORDER BY stop_number: the stop at place k
\* of the request has stop_number k.
\* stopsResult.rows.filter(s => s.lat && s.lng) of optimizeExistingRoute
OR_existingFilter == SelectSeq(request, LAMBDA s : Truthy(rows[s].lat) /\ Truthy(rows[s].lng))

\* optimize-route.js optimizeExistingRoute, up to the locations array.
OR_optimizeExistingRoute ==
    /\ pc = "request" /\ entry = "optimize-route"
    /\ IF depot = NoRow THEN Fail("Route not found")
       ELSE IF ~Truthy(depot.lat) \/ ~Truthy(depot.lng)
       THEN Fail("Distribution center is missing GPS coordinates")
       ELSE IF Len(request) = 0 THEN Fail("Route has no stops to optimize")
       ELSE IF Len(OR_existingFilter) = 0 THEN Fail("No stops with valid GPS coordinates")
       ELSE Accept(OR_existingFilter, <<0>>)

\* "UPDATE route_stops SET stop_number = $1 WHERE id = $2" for every stop of
\* ordered, with its place in ordered; the other stops of the route are not
\* written.
StopNumbersAfter(ordered) ==
    [s \in DOMAIN stopNumbers |->
        IF s \in Range(ordered)
        THEN CHOOSE k \in 1..Len(ordered) : ordered[k] = s
        ELSE stopNumbers[s]]

\* The response of a handler that saves the optimized order first.
RespondApplied(r) ==
    /\ stopNumbers' = StopNumbersAfter(r.stops)
    /\ result' = r
    /\ outcome' = "success"
    /\ pc' = "done"
    /\ UNCHANGED <<clusterVars, havVars, apiVars, stopVars, inputVars, geo, validStops,
                   nnVars, nnRoute, twoOptVars, errorMsg>>

\* optimizeExistingRoute from orderedStops on: the updates, then the response.
OR_applyOptimizedOrder ==
    /\ pc = "respond" /\ entry = "optimize-route"
    /\ RespondApplied(OR_result)

\* route-optimizer.js optimizeRoute with apply = true, from optimizedStops on.
RO_applyOptimizedOrder ==
    /\ pc = "respond" /\ entry = "route-optimizer"
    /\ RespondApplied(RO_result)

InitApply ==
    /\ InitRequest
    /\ entry \in {"optimize-route", "route-optimizer"}
    /\ maxIterations = DefaultMaxIterations(entry)
    /\ stopNumbers = [s \in DOMAIN rows |-> s]

NextApply ==
    \/ OR_optimizeExistingRoute \/ OR_nearestNeighborStep \/ OR_nearestNeighborReturn
    \/ OR_twoOptPass \/ OR_twoOptPair \/ OR_twoOptReturn \/ OR_applyOptimizedOrder
    \/ RO_optimizeRoute \/ RO_nearestNeighborStep \/ RO_nearestNeighborReturn
    \/ RO_twoOptPass \/ RO_twoOptPair \/ RO_twoOptReturn \/ RO_applyOptimizedOrder

SpecApply == InitApply /\ [][NextApply]_vars

\* C28: after an optimization has been applied to a stored route, the
\* stop_number values of the stops of the route are pairwise distinct.
C28_StopNumbersDistinct ==
    (entry \in {"optimize-route", "route-optimizer"} /\ pc = "done" /\ outcome = "success") =>
        \A s, t \in DOMAIN stopNumbers : stopNumbers[s] = stopNumbers[t] => s = t

\* ------------------------------------- nearestNeighbor on any caller's input
\* The arguments of the route utilities are the caller's objects: a coordinate
\* may be any value, a string that is not a numeral included.
TextLocations == JsLocations \cup {[lat |-> "s:text", lng |-> "n:in-range"]}

CallerDepots(e) == IF e = "route-utils" THEN TextLocations \cup {NoRow} ELSE DepotRowsOf(e)
CallerStops(e) ==
    IF e = "route-utils"
    THEN {r \in TextLocations : parseFloat(r.lat) # "n:out-of-range"}
    ELSE StopRowsOf(e)

InitNaN ==
    /\ InitRequestFrom([e \in Entries |-> CallerDepots(e)], [e \in Entries |-> CallerStops(e)])
    /\ entry \in {"optimize-route", "route-utils"}
    /\ maxIterations = DefaultMaxIterations(entry)
    /\ stopNumbers = <<>>

\* The handlers up to the return of nearestNeighbor.
NextNaN ==
    \/ OR_optimizeRoute \/ OR_nearestNeighborStep \/ OR_nearestNeighborReturn
    \/ RU_optimizeRoute \/ RU_nearestNeighborStep \/ RU_nearestNeighborReturn

\* The loop of nearestNeighbor is not preempted: an iteration that can be
\* taken is taken.
SpecNaN == InitNaN /\ [][NextNaN]_vars /\ WF_vars(NextNaN)

\* C29: nearestNeighbor returns on every input that passes the checks of its
\* caller: a call that has been entered leads to its return.
C29_NearestNeighborTerminates == (pc = "nn") ~> (pc = "twoOpt")

\* ------------------------------------------------ clusterStops to its return
\* clusterStops is synchronous: its loops run on without preemption.
SpecClusterLive == InitCluster /\ [][NextCluster]_vars /\ WF_vars(NextCluster)

\* C30: clusterStops returns for every stop list and every cluster count: a
\* call that has been entered leads to its return.
C30_ClusterStopsTerminates == (pc \in {"clusterStops", "seeding"}) ~> (pc = "returned")

=============================================================================
